---------------------------- MODULE Spec2Model ----------------------------
(***************************************************************************)
(* The star-schema ETL pipeline of src/etl_star_schema.py as a state       *)
(* machine: extract -> transform -> dimensions -> fact -> aggregates ->    *)
(* indexes -> statistics, run several times against one SQLite warehouse.  *)
(*                                                                         *)
(* Data frames and tables are sequences of records (row order is what      *)
(* drop_duplicates' keep-first and pandas' index alignment depend on).     *)
(* A timestamp is modelled by its calendar date as the integer YYYYMMDD:   *)
(* every use the pipeline makes of Transaction_DateTime truncates it to    *)
(* the date.  Every table row carries a history field "run": the number    *)
(* of the pipeline run whose statement wrote it.                           *)
(*                                                                         *)
(* Spec runs the whole pipeline, several times, on the feeds of Feeds.     *)
(* StatusSpec, AgeSpec and DateSpec run the first stages of one run on     *)
(* feeds that vary one column widely: the transaction status, the          *)
(* customer's age, the transaction day.                                    *)
(* ConsoleSpec is the SQL console of src/sqlite.py on its own: the loop    *)
(* that reads a line and hands it to SQLiteHandler.                        *)
(***************************************************************************)
EXTENDS Integers, Sequences, FiniteSets, TLC

\* ------------------------------------------------------------------ bounds
\* Longest feed (number of transactions the source serves).
MaxBatch == 2
\* Number of times the pipeline is run against the same warehouse file.
MaxRuns == 2

\* ------------------------------------------------------- the source's data
\* pandas' NaN / SQL NULL in an integer column.
NULL == -1

ProductIds == {1, 2}
Statuses == {"Completed", "Cancelled"}
\* Two days of different months with one day without transactions between.
Days == {20240131, 20240202}

\* The source's sales history: who bought product p on day d, and who
\* served.  Either customer buys either product, on different days.
CustomerOn(p, d) == IF (p = 1) = (d = 20240131) THEN 1 ELSE 2
StaffOnDuty(d) == IF d = 20240131 THEN 4 ELSE 5

\* Descriptive attributes are invariant per natural key within the feed.
CategoryOf(p) == IF p = 1 THEN "Phone" ELSE "Accessory"
BrandOf(p) == IF p = 1 THEN "Apple" ELSE "Anker"
ModelOf(p) == IF p = 1 THEN "iPhone" ELSE "Cable"
ProductNameOf(p) == IF p = 1 THEN "iPhone 15" ELSE "USB Cable"
ProductTypeOf(p) == IF p = 1 THEN "Device" ELSE "Accessory"
PriceOf(p) == IF p = 1 THEN 1000 ELSE 50
SupplierOf(p) == IF p = 1 THEN 7 ELSE 8
AgeOf(c) == IF c = 1 THEN 30 ELSE 22
GenderOf(c) == IF c = 1 THEN "Male" ELSE "Female"
OrderTypeOf(c) == IF c = 1 THEN "Online" ELSE "In-Store"

\* One record of the feed (the columns the pipeline reads).
RawTransaction(p, c, s, d) ==
    [ Product_ID |-> p, Product_Name |-> ProductNameOf(p),
      Category |-> CategoryOf(p), Brand |-> BrandOf(p), Model |-> ModelOf(p),
      Product_Type |-> ProductTypeOf(p), Unit_Price |-> PriceOf(p),
      Customer_ID |-> c, Customer_Age |-> AgeOf(c),
      Customer_Gender |-> GenderOf(c),
      Staff_ID |-> StaffOnDuty(d), Supplier_ID |-> SupplierOf(p),
      Transaction_DateTime |-> d, Order_Type |-> OrderTypeOf(c),
      Transaction_Status |-> s, Total_Amount |-> PriceOf(p) ]

\* The transactions the source can serve.
TxUniverse ==
    { RawTransaction(p, CustomerOn(p, d), s, d) :
        p \in ProductIds, s \in Statuses, d \in Days }

\* r with the columns of ext added (ext wins on a shared column).
Extend(r, ext) ==
    [ f \in (DOMAIN r) \cup (DOMAIN ext) |->
        IF f \in DOMAIN ext THEN ext[f] ELSE r[f] ]

\* The feeds: every sequence of up to MaxBatch transactions, each with its
\* position as Transaction_ID.
Feeds ==
    UNION { { [ i \in 1..n |-> Extend(f[i], [Transaction_ID |-> i]) ] :
                f \in [1..n -> TxUniverse] } : n \in 0..MaxBatch }

\* The feeds in which a transaction has any of the three statuses.
AllStatuses == {"Completed", "Cancelled", "Refunded"}
StatusFeeds ==
    LET universe == { RawTransaction(p, CustomerOn(p, d), s, d) :
                        p \in ProductIds, s \in AllStatuses, d \in Days }
    IN  UNION { { [ i \in 1..n |-> Extend(f[i], [Transaction_ID |-> i]) ] :
                    f \in [1..n -> universe] } : n \in 0..MaxBatch }

\* The feeds of one transaction of a customer of any age from -1 to 101:
\* every age of the bins of pd.cut and the nearest ages outside them.
Ages == (-1)..101
AgeFeeds ==
    { << Extend(RawTransaction(1, 1, "Completed", 20240131),
                [Transaction_ID |-> 1, Customer_Age |-> a]) >> : a \in Ages }

\* Periods of sample days around the ends of months and of a year: over the
\* February of a leap year, the ends of two months of 30 days (of the second
\* and of the third quarter), the February of a common year.  The feeds of two transactions on two days of one period.
DateSamples ==
    { { 20231230, 20231231, 20240101, 20240102, 20240227, 20240228,
        20240229, 20240301 },
      { 20240429, 20240430, 20240501 },
      { 20240929, 20240930, 20241001 },
      { 20250227, 20250228, 20250301, 20250302 } }
DateFeeds ==
    UNION { { << Extend(RawTransaction(1, CustomerOn(1, a), "Completed", a),
                        [Transaction_ID |-> 1]),
                 Extend(RawTransaction(2, CustomerOn(2, b), "Completed", b),
                        [Transaction_ID |-> 2]) >> : a, b \in period } :
            period \in DateSamples }

\* ------------------------------------------------------------ the calendar
YearOf(d) == d \div 10000
MonthOf(d) == (d \div 100) % 100
DayOf(d) == d % 100

IsLeap(y) == (y % 4 = 0 /\ y % 100 # 0) \/ y % 400 = 0

DaysInMonth(y, m) ==
    IF m = 2 THEN (IF IsLeap(y) THEN 29 ELSE 28)
    ELSE IF m \in {4, 6, 9, 11} THEN 30 ELSE 31

\* A day after d that takes every February for one of 28 days.
NextDayIgnoresLeapYear(d) ==
    IF DayOf(d) < (IF MonthOf(d) = 2 THEN 28 ELSE DaysInMonth(YearOf(d), MonthOf(d)))
    THEN d + 1
    ELSE IF MonthOf(d) < 12 THEN YearOf(d) * 10000 + (MonthOf(d) + 1) * 100 + 1
    ELSE (YearOf(d) + 1) * 10000 + 101

\* The day after d.
NextDay(d) ==
    IF DayOf(d) < DaysInMonth(YearOf(d), MonthOf(d)) THEN d + 1
    ELSE IF MonthOf(d) < 12 THEN YearOf(d) * 10000 + (MonthOf(d) + 1) * 100 + 1
    ELSE (YearOf(d) + 1) * 10000 + 101

\* pd.date_range(start, end, freq='D'): every day from start to end.
RECURSIVE date_range(_, _)
date_range(start, end) ==
    IF start > end THEN <<>>
    ELSE <<start>> \o date_range(NextDay(start), end)

\* date.strftime('%Y%m%d') read back with int().
DateKey(d) == YearOf(d) * 10000 + MonthOf(d) * 100 + DayOf(d)

\* strftime('%Y-%m') / dt.to_period('M').astype(str): the seven characters
\* of 'YYYY-MM', the digits as numbers.
YearMonth(d) ==
    << YearOf(d) \div 1000, (YearOf(d) \div 100) % 10, (YearOf(d) \div 10) % 10,
       YearOf(d) % 10, "-", MonthOf(d) \div 10, MonthOf(d) % 10 >>

\* date.toordinal(): the number of the day d, day 1 being 0001-01-01.
DaysBeforeMonth == << 0, 31, 59, 90, 120, 151, 181, 212, 243, 273, 304, 334 >>
ToOrdinal(d) ==
    LET y == YearOf(d) - 1
    IN  y * 365 + y \div 4 - y \div 100 + y \div 400
          + DaysBeforeMonth[MonthOf(d)]
          + (IF MonthOf(d) > 2 /\ IsLeap(YearOf(d)) THEN 1 ELSE 0)
          + DayOf(d)

\* date.dayofweek: Monday is 0, Sunday is 6.
DayOfWeek(d) == (ToOrdinal(d) + 6) % 7

\* ------------------------------------------------------ pandas' operations
\* The rows of frame at the positions in keep, in order.
RowsWhere(frame, keep) ==
    LET F[i \in 0..Len(frame)] ==
            IF i = 0 THEN <<>>
            ELSE IF i \in keep THEN Append(F[i - 1], frame[i]) ELSE F[i - 1]
    IN  F[Len(frame)]

\* frame[cols]: the projection of every row on cols.
Project(frame, cols) ==
    [ i \in 1..Len(frame) |-> [ c \in cols |-> frame[i][c] ] ]

\* frame.drop_duplicates(col): the first row of each value of col.
drop_duplicates_on(frame, col) ==
    RowsWhere(frame,
        { i \in 1..Len(frame) :
            \A j \in 1..(i - 1) : frame[j][col] # frame[i][col] })

\* frame.drop_duplicates(): the first of each group of wholly equal rows.
drop_duplicates(frame) ==
    RowsWhere(frame,
        { i \in 1..Len(frame) : \A j \in 1..(i - 1) : frame[j] # frame[i] })

\* pd.cut with right=False: left-closed bins, NaN outside [0, 100).
AgeGroupLeftClosed(age) ==
    IF age < 0 \/ age >= 100 THEN "NaN"
    ELSE IF age < 25 THEN "18-25"
    ELSE IF age < 35 THEN "26-35"
    ELSE IF age < 45 THEN "36-45"
    ELSE IF age < 55 THEN "46-55"
    ELSE "56+"

\* pd.cut(age, bins=[0,25,35,45,55,100], labels=[...]): right-closed bins,
\* NaN outside (0, 100].
AgeGroup(age) ==
    IF age <= 0 \/ age > 100 THEN "NaN"
    ELSE IF age <= 25 THEN "18-25"
    ELSE IF age <= 35 THEN "26-35"
    ELSE IF age <= 45 THEN "36-45"
    ELSE IF age <= 55 THEN "46-55"
    ELSE "56+"

\* The rows of left joined to those of right whose right_on equals their
\* left_on (how='left': a row without a match keeps NULL in right's columns).
merge(left, right, left_on, right_on) ==
    LET cols == IF right = <<>> THEN {} ELSE DOMAIN right[1]
        nulls == [ c \in cols |-> NULL ]
        matches(i) ==
            RowsWhere(right,
                { j \in 1..Len(right) : right[j][right_on] = left[i][left_on] })
        joined(i) ==
            IF matches(i) = <<>> THEN << Extend(left[i], nulls) >>
            ELSE [ k \in 1..Len(matches(i)) |-> Extend(left[i], matches(i)[k]) ]
        F[i \in 0..Len(left)] ==
            IF i = 0 THEN <<>> ELSE F[i - 1] \o joined(i)
    IN  F[Len(left)]

\* validate='many_to_one': the merge keys are unique in the right frame
\* (pandas raises MergeError otherwise).
many_to_one(right, right_on) ==
    \A i, j \in 1..Len(right) : right[i][right_on] = right[j][right_on] => i = j

\* frame.to_sql(table, conn, if_exists='replace'): the table is dropped and
\* rebuilt from frame; every row is written by run r.
to_sql(frame, r) ==
    [ i \in 1..Len(frame) |-> Extend(frame[i], [run |-> r]) ]

\* pd.read_sql("SELECT cols FROM table").
read_sql(table, cols) == Project(table, cols)

\* ------------------------------------------------------------- the stages
\* transform_data(df): the derived columns, and the four surrogate keys
\* range(1, len(df) + 1), one per ROW.
transform_data(df) ==
    [ i \in 1..Len(df) |->
        Extend(df[i],
          [ Age_Group |-> AgeGroup(df[i].Customer_Age),
            Date |-> df[i].Transaction_DateTime,
            Year |-> YearOf(df[i].Transaction_DateTime),
            Month |-> MonthOf(df[i].Transaction_DateTime),
            Day |-> DayOf(df[i].Transaction_DateTime),
            Year_Month |-> YearMonth(df[i].Transaction_DateTime),
            Product_Key |-> i, Customer_Key |-> i,
            Staff_Key |-> i, Supplier_Key |-> i ]) ]

\* The smallest / largest Transaction_DateTime of a non-empty frame.
MinDate(df) ==
    CHOOSE d \in { df[i].Transaction_DateTime : i \in 1..Len(df) } :
        \A i \in 1..Len(df) : d <= df[i].Transaction_DateTime
MaxDate(df) ==
    CHOOSE d \in { df[i].Transaction_DateTime : i \in 1..Len(df) } :
        \A i \in 1..Len(df) : d >= df[i].Transaction_DateTime

\* A row of dim_date whose quarter is month // 3 + 1.
DimDateRowQuarterOfFloor(d) ==
    [ date_key |-> DateKey(d), full_date |-> d, year |-> YearOf(d),
      quarter |-> MonthOf(d) \div 3 + 1, month |-> MonthOf(d),
      day |-> DayOf(d), day_of_week |-> DayOfWeek(d),
      is_weekend |-> IF DayOfWeek(d) >= 5 THEN 1 ELSE 0,
      year_month |-> YearMonth(d) ]

\* One row of dim_date (without the names of the month and the day and the
\* ISO week).
DimDateRow(d) ==
    [ date_key |-> DateKey(d), full_date |-> d, year |-> YearOf(d),
      quarter |-> (MonthOf(d) - 1) \div 3 + 1, month |-> MonthOf(d),
      day |-> DayOf(d), day_of_week |-> DayOfWeek(d),
      is_weekend |-> IF DayOfWeek(d) >= 5 THEN 1 ELSE 0,
      year_month |-> YearMonth(d) ]

\* populate_dim_date: the frame written to dim_date.
DimDateFrame(df) ==
    LET days == date_range(MinDate(df), MaxDate(df))
    IN  [ i \in 1..Len(days) |-> DimDateRow(days[i]) ]

\* populate_dimensions: the four frames written to the entity dimensions.
DimProductFrame(df) ==
    LET d == drop_duplicates_on(df, "Product_ID")
    IN  [ i \in 1..Len(d) |->
            [ product_id |-> d[i].Product_ID, product_key |-> d[i].Product_Key,
              product_name |-> d[i].Product_Name, category |-> d[i].Category,
              brand |-> d[i].Brand, model |-> d[i].Model,
              product_type |-> d[i].Product_Type,
              unit_price |-> d[i].Unit_Price ] ]

DimCustomerFrame(df) ==
    LET d == drop_duplicates_on(df, "Customer_ID")
    IN  [ i \in 1..Len(d) |->
            [ customer_id |-> d[i].Customer_ID,
              customer_key |-> d[i].Customer_Key,
              customer_age |-> d[i].Customer_Age,
              customer_gender |-> d[i].Customer_Gender,
              age_group |-> d[i].Age_Group ] ]

DimStaffFrame(df) ==
    LET d == drop_duplicates(Project(df, {"Staff_ID", "Staff_Key"}))
    IN  [ i \in 1..Len(d) |->
            [ staff_id |-> d[i].Staff_ID, staff_key |-> d[i].Staff_Key ] ]

DimSupplierFrame(df) ==
    LET d == drop_duplicates(Project(df, {"Supplier_ID", "Supplier_Key"}))
    IN  [ i \in 1..Len(d) |->
            [ supplier_id |-> d[i].Supplier_ID,
              supplier_key |-> d[i].Supplier_Key ] ]

\* fact['date_key'] = <the keys>.drop_duplicates(): the assignment aligns on
\* the index, so a row whose key occurred in an earlier row gets NaN.
WithDateKey(fact) ==
    LET key(i) == DateKey(fact[i].Transaction_DateTime)
        kept(i) == \A j \in 1..(i - 1) : key(j) # key(i)
    IN  [ i \in 1..Len(fact) |->
            Extend(fact[i], [date_key |-> IF kept(i) THEN key(i) ELSE NULL]) ]

\* The columns of the frame populate_fact_table writes, renamed.
FactColumns(fact) ==
    [ i \in 1..Len(fact) |->
        [ product_key |-> fact[i].Product_Key,
          customer_key |-> fact[i].Customer_Key,
          date_key |-> fact[i].date_key,
          staff_key |-> fact[i].Staff_Key,
          supplier_key |-> fact[i].Supplier_Key,
          transaction_id |-> fact[i].Transaction_ID,
          transaction_datetime |-> fact[i].Transaction_DateTime,
          order_type |-> fact[i].Order_Type,
          transaction_status |-> fact[i].Transaction_Status,
          total_amount |-> fact[i].Total_Amount ] ]

\* FactFrame with the frame deduplicated on the merge key after the product
\* merge (drop_duplicates('Product_ID') for drop_duplicates()).
FactFrameDedupOnKey(df, m) ==
    LET pm == drop_duplicates_on(m.product, "product_id")
        f1 == drop_duplicates_on(merge(df, pm, "Product_ID", "product_id"),
                                 "Product_ID")
        cm == drop_duplicates_on(m.customer, "customer_id")
        f2 == drop_duplicates(merge(f1, cm, "Customer_ID", "customer_id"))
        f3 == WithDateKey(f2)
        sm == drop_duplicates_on(m.staff, "staff_id")
        f4 == drop_duplicates(merge(f3, sm, "Staff_ID", "staff_id"))
        um == drop_duplicates_on(m.supplier, "supplier_id")
        f5 == drop_duplicates(merge(f4, um, "Supplier_ID", "supplier_id"))
    IN  FactColumns(f5)

\* populate_fact_table's try block up to the write: the four left merges,
\* each followed by drop_duplicates(), and the date key.
FactFrame(df, m) ==
    LET pm == drop_duplicates_on(m.product, "product_id")
        f1 == drop_duplicates(merge(df, pm, "Product_ID", "product_id"))
        cm == drop_duplicates_on(m.customer, "customer_id")
        f2 == drop_duplicates(merge(f1, cm, "Customer_ID", "customer_id"))
        f3 == WithDateKey(f2)
        sm == drop_duplicates_on(m.staff, "staff_id")
        f4 == drop_duplicates(merge(f3, sm, "Staff_ID", "staff_id"))
        um == drop_duplicates_on(m.supplier, "supplier_id")
        f5 == drop_duplicates(merge(f4, um, "Supplier_ID", "supplier_id"))
    IN  FactColumns(f5)

\* No merge of populate_fact_table raises MergeError.
MergesValid(m) ==
    /\ many_to_one(drop_duplicates_on(m.product, "product_id"), "product_id")
    /\ many_to_one(drop_duplicates_on(m.customer, "customer_id"), "customer_id")
    /\ many_to_one(drop_duplicates_on(m.staff, "staff_id"), "staff_id")
    /\ many_to_one(drop_duplicates_on(m.supplier, "supplier_id"), "supplier_id")

\* ----------------------------------------------------- the aggregate SQL
AggTables ==
    << "agg_kpi_revenue_by_dimension", "agg_kpi_status_by_order_type",
       "agg_customer_metrics", "agg_product_type_distribution" >>

AllTables ==
    { "dim_product", "dim_customer", "dim_date", "dim_staff", "dim_supplier",
      "fact_transactions" } \cup { AggTables[i] : i \in 1..4 }

\* SUM over a sequence of values.
Sum(values) ==
    LET F[i \in 0..Len(values)] ==
            IF i = 0 THEN 0 ELSE F[i - 1] + values[i]
    IN  F[Len(values)]

\* FROM left JOIN right ON <condition>: a pair <<l, r>> per pair of positions
\* in on (the pairs of positions the condition accepts), in left's order.
Join(left, right, on) ==
    LET matches(i) == RowsWhere(right, { j \in 1..Len(right) : <<i, j>> \in on })
        F[i \in 0..Len(left)] ==
            IF i = 0 THEN <<>>
            ELSE F[i - 1] \o
                 [ k \in 1..Len(matches(i)) |-> <<left[i], matches(i)[k]>> ]
    IN  F[Len(left)]

\* GROUP BY: the distinct values of keys (the rows' grouping keys), and the
\* rows of one key.
GroupKeys(keys) ==
    RowsWhere(keys,
        { i \in 1..Len(keys) : \A j \in 1..(i - 1) : keys[j] # keys[i] })
Group(rows, keys, k) == RowsWhere(rows, { i \in 1..Len(rows) : keys[i] = k })

\* The join of the revenue aggregate without its WHERE clause.
AnyStatusByProduct(fact, dimp) ==
    Join(fact, dimp,
         { ij \in (1..Len(fact)) \X (1..Len(dimp)) :
             fact[ij[1]].product_key = dimp[ij[2]].product_key })

\* fact_transactions f JOIN dim_product p ON f.product_key = p.product_key
\* WHERE f.transaction_status = 'Completed'.
CompletedByProduct(fact, dimp) ==
    LET j == Join(fact, dimp,
                  { ij \in (1..Len(fact)) \X (1..Len(dimp)) :
                      fact[ij[1]].product_key = dimp[ij[2]].product_key })
    IN  RowsWhere(j, { i \in 1..Len(j) :
                         j[i][1].transaction_status = "Completed" })

\* One SELECT of the revenue aggregate: GROUP BY the product column col.
RevenueBy(fact, dimp, name, col) ==
    LET rows == CompletedByProduct(fact, dimp)
        key == [ i \in 1..Len(rows) |-> rows[i][2][col] ]
        keys == GroupKeys(key)
        g(k) == Group(rows, key, k)
        total(k) == Sum([ i \in 1..Len(g(k)) |-> g(k)[i][1].total_amount ])
    IN  [ i \in 1..Len(keys) |->
            [ dimension |-> name, dimension_value |-> keys[i],
              total_amount |-> total(keys[i]),
              transaction_count |-> Len(g(keys[i])),
              avg_transaction_value |-> <<total(keys[i]), Len(g(keys[i]))>> ] ]

\* Aggregate 1: the UNION ALL of the three revenue SELECTs.
AggRevenueByDimension(fact, dimp) ==
    RevenueBy(fact, dimp, "Category", "category")
      \o RevenueBy(fact, dimp, "Brand", "brand")
      \o RevenueBy(fact, dimp, "Model", "model")

\* Aggregate 2: COUNT(*) of the fact rows per (order_type, status).
AggStatusByOrderType(fact) ==
    LET key == [ i \in 1..Len(fact) |->
                   <<fact[i].order_type, fact[i].transaction_status>> ]
        keys == GroupKeys(key)
    IN  [ i \in 1..Len(keys) |->
            [ order_type |-> keys[i][1], transaction_status |-> keys[i][2],
              record_count |-> Len(Group(fact, key, keys[i])) ] ]

\* Aggregate 3: Completed fact rows joined to dim_customer and dim_date,
\* per (age_group, gender, year_month).
AggCustomerMetrics(fact, dimc, dimd) ==
    LET jc == Join(fact, dimc,
                   { ij \in (1..Len(fact)) \X (1..Len(dimc)) :
                       fact[ij[1]].customer_key = dimc[ij[2]].customer_key })
        jd == Join(jc, dimd,
                   { ij \in (1..Len(jc)) \X (1..Len(dimd)) :
                       jc[ij[1]][1].date_key = dimd[ij[2]].date_key })
        rows == RowsWhere(jd, { i \in 1..Len(jd) :
                                  jd[i][1][1].transaction_status = "Completed" })
        key == [ i \in 1..Len(rows) |->
                   << rows[i][1][2].age_group, rows[i][1][2].customer_gender,
                      rows[i][2].year_month >> ]
        keys == GroupKeys(key)
        g(k) == Group(rows, key, k)
    IN  [ i \in 1..Len(keys) |->
            [ age_group |-> keys[i][1], gender |-> keys[i][2],
              year_month |-> keys[i][3],
              transaction_count |-> Len(g(keys[i])),
              total_revenue |->
                  Sum([ n \in 1..Len(g(keys[i])) |->
                          g(keys[i])[n][1][1].total_amount ]) ] ]

\* One SELECT of the product-type aggregate: GROUP BY col, product_type.
DistributionBy(fact, dimp, name, col) ==
    LET rows == CompletedByProduct(fact, dimp)
        key == [ i \in 1..Len(rows) |->
                   <<rows[i][2][col], rows[i][2].product_type>> ]
        keys == GroupKeys(key)
        g(k) == Group(rows, key, k)
    IN  [ i \in 1..Len(keys) |->
            [ dimension |-> name, dimension_value |-> keys[i][1],
              product_type |-> keys[i][2],
              record_count |-> Len(g(keys[i])),
              total_revenue |->
                  Sum([ n \in 1..Len(g(keys[i])) |->
                          g(keys[i])[n][1].total_amount ]) ] ]

\* Aggregate 4: the UNION ALL of the four distribution SELECTs.
AggProductTypeDistribution(fact, dimp) ==
    DistributionBy(fact, dimp, "Category", "category")
      \o DistributionBy(fact, dimp, "Brand", "brand")
      \o DistributionBy(fact, dimp, "Model", "model")
      \o DistributionBy(fact, dimp, "Product_Name", "product_name")

\* The SELECT of the i-th INSERT of create_aggregate_tables, over tables.
AggSelect(i, fact, dimp, dimc, dimd) ==
    CASE i = 1 -> AggRevenueByDimension(fact, dimp)
      [] i = 2 -> AggStatusByOrderType(fact)
      [] i = 3 -> AggCustomerMetrics(fact, dimc, dimd)
      [] i = 4 -> AggProductTypeDistribution(fact, dimp)

\* The tables the i-th INSERT names: its target and those it selects from.
AggNames(i) ==
    { AggTables[i], "fact_transactions" } \cup
    ( CASE i = 1 -> {"dim_product"}
        [] i = 2 -> {}
        [] i = 3 -> {"dim_customer", "dim_date"}
        [] i = 4 -> {"dim_product"} )

\* The tables create_indexes names.
IndexedTables == {"fact_transactions", "dim_product", "dim_customer"}

\* ---------------------------------------------------------------- the state
VARIABLES
    source,             \* what the API serves
    run,                \* number of the current pipeline run (process)
    pc,                 \* where main() is
    df_raw,             \* main's df_raw
    df_transformed,     \* main's df_transformed
    mappings,           \* the four mappings populate_dimensions returns
    dim_product, dim_customer, dim_date, dim_staff, dim_supplier,
    fact_transactions,
    agg,                \* the four aggregate tables, by name
    exists,             \* names of the tables that exist in the database
    txn,                \* the connection's transaction: none/open/committed/rolledback
    aggBefore,          \* the aggregate tables as they were at BEGIN (the journal)
    failedAt,           \* history: which INSERT of this run raised (0: none)
    factLoaded,         \* history: this run wrote fact_transactions
    prev,               \* history: the warehouse the previous run left, when
                        \* every stage of that run succeeded
    error,              \* the exception that ended this run: where it was
                        \* raised and its class (NoError: none)
    txnLog,             \* history: the conn.commit() and conn.rollback() calls
                        \* create_aggregate_tables has made in this run
    console             \* the SQL console of sqlite.py: its loop and handler

vars ==
    << source, run, pc, df_raw, df_transformed, mappings, dim_product,
       dim_customer, dim_date, dim_staff, dim_supplier, fact_transactions,
       agg, exists, txn, aggBefore, failedAt, factLoaded, prev, error,
       txnLog, console >>

\* The variables of the pipeline.
pipeline ==
    << source, run, pc, df_raw, df_transformed, mappings, dim_product,
       dim_customer, dim_date, dim_staff, dim_supplier, fact_transactions,
       agg, exists, txn, aggBefore, failedAt, factLoaded, prev, error,
       txnLog >>

dims == << dim_product, dim_customer, dim_date, dim_staff, dim_supplier >>
locals == << df_raw, df_transformed, mappings >>
aggState == << agg, txn, aggBefore, failedAt, txnLog >>

NoMappings ==
    [ product |-> <<>>, customer |-> <<>>, staff |-> <<>>, supplier |-> <<>> ]
NoAggregates == [ i \in 1..4 |-> <<>> ]
NoError == [ stage |-> "", class |-> "" ]

\* The console after SQLiteHandler("mobile_shop_dw.db"): connected, at its
\* first prompt, no line read.
ConsoleStart ==
    [ at |-> "prompt", read |-> 0, line |-> <<>>, handler |-> "",
      stmt |-> "none", committed |-> FALSE, returned |-> "", caught |-> FALSE,
      open |-> TRUE, commits |-> 0, eof |-> FALSE ]

\* The rows of a table without their history field.
Stored(table) ==
    [ i \in 1..Len(table) |->
        [ c \in (DOMAIN table[i]) \ {"run"} |-> table[i][c] ] ]

\* The contents of the ten tables.
Warehouse ==
    << Stored(dim_product), Stored(dim_customer), Stored(dim_date),
       Stored(dim_staff), Stored(dim_supplier), Stored(fact_transactions),
       Stored(agg[1]), Stored(agg[2]), Stored(agg[3]), Stored(agg[4]) >>

\* The database file before the first run: either empty, or holding the
\* empty tables the console's init command creates from schema.sql.
FirstRun ==
    /\ run = 1
    /\ pc = "extract"
    /\ df_raw = <<>>
    /\ df_transformed = <<>>
    /\ mappings = NoMappings
    /\ dim_product = <<>> /\ dim_customer = <<>> /\ dim_date = <<>>
    /\ dim_staff = <<>> /\ dim_supplier = <<>>
    /\ fact_transactions = <<>>
    /\ agg = NoAggregates
    /\ exists \in { {}, AllTables }
    /\ txn = "none"
    /\ aggBefore = NoAggregates
    /\ failedAt = 0
    /\ factLoaded = FALSE
    /\ prev = [ succeeded |-> FALSE, warehouse |-> <<>> ]
    /\ error = NoError
    /\ txnLog = <<>>
    /\ console = ConsoleStart

Init == source \in Feeds /\ FirstRun

\* ------------------------------------------------------------------ actions
\* An extract_data whose except clauses print the error and return the frame
\* instead of exiting.
ExtractDataCarriesOn ==
    /\ pc = "extract"
    /\ \/ /\ df_raw' = source
          /\ pc' = "transform"
          /\ error' = error
       \/ /\ df_raw' = source
          /\ pc' = "transform"
          /\ error' = [ stage |-> "extract", class |-> "ConnectionError" ]
       \/ /\ df_raw' = source
          /\ pc' = "transform"
          /\ error' = [ stage |-> "extract", class |-> "Exception" ]
       \/ /\ df_raw' = df_raw
          /\ pc' = "blocked"
          /\ error' = error
    /\ UNCHANGED << console, source, run, df_transformed, mappings, dims,
                    fact_transactions, exists, aggState, factLoaded, prev >>

\* extract_data: the feed as a frame, or sys.exit(1) on ConnectionError and
\* on any other exception (HTTP error status, unparsable body).  The call
\* requests.get(API_URL) passes no timeout: when the server accepts the
\* connection and never answers, the call does not return.
ExtractData ==
    /\ pc = "extract"
    /\ \/ /\ df_raw' = source
          /\ pc' = "transform"
          /\ error' = error
       \/ /\ df_raw' = df_raw
          /\ pc' = "failed"
          /\ error' = [ stage |-> "extract", class |-> "ConnectionError" ]
       \/ /\ df_raw' = df_raw
          /\ pc' = "failed"
          /\ error' = [ stage |-> "extract", class |-> "Exception" ]
       \/ /\ df_raw' = df_raw
          /\ pc' = "blocked"
          /\ error' = error
    /\ UNCHANGED << console, source, run, df_transformed, mappings, dims,
                    fact_transactions, exists, aggState, factLoaded, prev >>

\* transform_data, called outside main's try: an empty frame has no column
\* Transaction_DateTime, the KeyError ends the process with a traceback.
TransformData ==
    /\ pc = "transform"
    /\ IF df_raw = <<>>
       THEN /\ pc' = "failed"
            /\ error' = [ stage |-> "transform", class |-> "KeyError" ]
            /\ UNCHANGED df_transformed
       ELSE /\ df_transformed' = transform_data(df_raw)
            /\ pc' = "dimensions"
            /\ error' = error
    /\ UNCHANGED << console, source, run, df_raw, mappings, dims, fact_transactions,
                    exists, aggState, factLoaded, prev >>

\* The dimension tables in the order populate_dimensions writes them.
DimTables ==
    << "dim_product", "dim_customer", "dim_date", "dim_staff", "dim_supplier" >>

\* populate_dimensions: the five to_sql(if_exists='replace') writes in the
\* order product, customer, date, staff, supplier, and the mappings read back.
\* Each to_sql commits its own write; one that raises (the storage refuses
\* the write) leaves the n tables written before it replaced and reaches
\* main's except clause: sys.exit(1).
PopulateDimensions ==
    /\ pc = "dimensions"
    /\ \E n \in 0..Len(DimTables) :
          /\ dim_product' = IF n >= 1
                THEN to_sql(DimProductFrame(df_transformed), run) ELSE dim_product
          /\ dim_customer' = IF n >= 2
                THEN to_sql(DimCustomerFrame(df_transformed), run) ELSE dim_customer
          /\ dim_date' = IF n >= 3
                THEN to_sql(DimDateFrame(df_transformed), run) ELSE dim_date
          /\ dim_staff' = IF n >= 4
                THEN to_sql(DimStaffFrame(df_transformed), run) ELSE dim_staff
          /\ dim_supplier' = IF n >= 5
                THEN to_sql(DimSupplierFrame(df_transformed), run) ELSE dim_supplier
          /\ exists' = exists \cup { DimTables[i] : i \in 1..n }
          /\ IF n = Len(DimTables)
             THEN /\ mappings' =
                       [ product |-> read_sql(dim_product', {"product_id"}),
                         customer |-> read_sql(dim_customer',
                                               {"customer_key", "customer_id"}),
                         staff |-> read_sql(dim_staff', {"staff_key", "staff_id"}),
                         supplier |-> read_sql(dim_supplier',
                                               {"supplier_key", "supplier_id"}) ]
                  /\ pc' = "fact"
                  /\ error' = error
             ELSE /\ mappings' = mappings
                  /\ pc' = "failed"
                  /\ error' = [ stage |-> "dimensions", class |-> "DatabaseError" ]
    /\ UNCHANGED << console, source, run, df_raw, df_transformed, fact_transactions,
                    aggState, factLoaded, prev >>

\* populate_fact_table: the frame is built and written; an exception (a
\* MergeError, a failed write) is printed and swallowed by the except clause,
\* and main goes on either way.
PopulateFactTable ==
    /\ pc = "fact"
    /\ \/ /\ MergesValid(mappings)
          /\ fact_transactions' = to_sql(FactFrame(df_transformed, mappings), run)
          /\ exists' = exists \cup {"fact_transactions"}
          /\ factLoaded' = TRUE
       \/ /\ UNCHANGED << fact_transactions, exists, factLoaded >>
    /\ pc' = "aggregates"
    /\ UNCHANGED << console, source, run, locals, dims, aggState, prev, error >>

\* create_aggregate_tables, cursor.execute("BEGIN").
AggBegin ==
    /\ pc = "aggregates"
    /\ txn' = "open"
    /\ aggBefore' = agg
    /\ pc' = "insert1"
    /\ UNCHANGED << console, source, run, locals, dims, fact_transactions, agg, exists,
                    failedAt, factLoaded, prev, error, txnLog >>

InsertPc == << "insert1", "insert2", "insert3", "insert4" >>

\* A rollback that leaves the staged rows in place (the INSERTs having run
\* outside the transaction).
RollbackKeepsStaged == agg

\* conn.rollback(): the tables are again what they were at BEGIN.
Rollback == aggBefore

\* An i-th INSERT whose except clause prints the exception and does not
\* roll back.
AggInsertWithoutRollback(i) ==
    /\ pc = InsertPc[i]
    /\ \/ /\ AggNames(i) \subseteq exists
          /\ agg' = [ agg EXCEPT ![i] =
                        @ \o to_sql(AggSelect(i, fact_transactions, dim_product,
                                              dim_customer, dim_date), run) ]
          /\ pc' = IF i < 4 THEN InsertPc[i + 1] ELSE "commit"
          /\ UNCHANGED << txn, failedAt, txnLog >>
       \/ /\ agg' = agg
          /\ txn' = txn
          /\ failedAt' = i
          /\ txnLog' = txnLog
          /\ pc' = "indexes"
    /\ UNCHANGED << console, source, run, locals, dims, fact_transactions, exists,
                    aggBefore, factLoaded, prev, error >>

\* The i-th INSERT INTO <aggregate> SELECT ...: the selected rows are added
\* to the table.  It raises when a table it names does not exist, and may
\* raise for a reason of the storage (sqlite3.OperationalError); the except
\* clause then rolls back and create_aggregate_tables returns normally.
AggInsert(i) ==
    /\ pc = InsertPc[i]
    /\ \/ /\ AggNames(i) \subseteq exists
          /\ agg' = [ agg EXCEPT ![i] =
                        @ \o to_sql(AggSelect(i, fact_transactions, dim_product,
                                              dim_customer, dim_date), run) ]
          /\ pc' = IF i < 4 THEN InsertPc[i + 1] ELSE "commit"
          /\ UNCHANGED << txn, failedAt, txnLog >>
       \/ /\ agg' = Rollback
          /\ txn' = "rolledback"
          /\ failedAt' = i
          /\ txnLog' = Append(txnLog, "rollback")
          /\ pc' = "indexes"
    /\ UNCHANGED << console, source, run, locals, dims, fact_transactions, exists,
                    aggBefore, factLoaded, prev, error >>

\* conn.commit() after the fourth INSERT.
AggCommit ==
    /\ pc = "commit"
    /\ txn' = "committed"
    /\ txnLog' = Append(txnLog, "commit")
    /\ pc' = "indexes"
    /\ UNCHANGED << console, source, run, locals, dims, fact_transactions, agg, exists,
                    aggBefore, failedAt, factLoaded, prev, error >>

\* create_indexes: eight CREATE INDEX IF NOT EXISTS and a commit; a raising
\* statement (a missing table, a storage error) reaches main's except clause:
\* sys.exit(1).
CreateIndexes ==
    /\ pc = "indexes"
    /\ \/ /\ IndexedTables \subseteq exists
          /\ pc' = "statistics"
          /\ error' = error
       \/ /\ pc' = "failed"
          /\ error' = [ stage |-> "indexes", class |-> "OperationalError" ]
    /\ UNCHANGED << console, source, run, locals, dims, fact_transactions, exists,
                    aggState, factLoaded, prev >>

\* display_statistics, conn.close() and the success banner: SELECT COUNT(*)
\* of each of the ten tables; a missing table raises into main's except.
DisplayStatistics ==
    /\ pc = "statistics"
    /\ IF AllTables \subseteq exists
       THEN pc' = "done" /\ error' = error
       ELSE /\ pc' = "failed"
            /\ error' = [ stage |-> "statistics", class |-> "OperationalError" ]
    /\ UNCHANGED << console, source, run, locals, dims, fact_transactions, exists,
                    aggState, factLoaded, prev >>

\* The run has ended with the success banner and none of its stages failed:
\* the fact table was written and the aggregates were committed.
Succeeded == pc = "done" /\ factLoaded /\ txn = "committed"

\* The pipeline is started again (a new process) on the same database file.
Rerun ==
    /\ pc \in {"done", "failed"}
    /\ run < MaxRuns
    /\ run' = run + 1
    /\ pc' = "extract"
    /\ df_raw' = <<>>
    /\ df_transformed' = <<>>
    /\ mappings' = NoMappings
    /\ txn' = "none"
    /\ failedAt' = 0
    /\ factLoaded' = FALSE
    /\ error' = NoError
    /\ txnLog' = <<>>
    /\ prev' = IF Succeeded
               THEN [ succeeded |-> TRUE, warehouse |-> Warehouse ]
               ELSE [ succeeded |-> FALSE, warehouse |-> <<>> ]
    /\ UNCHANGED << console, source, dims, fact_transactions, agg, exists, aggBefore >>

Next ==
    \/ ExtractData
    \/ TransformData
    \/ PopulateDimensions
    \/ PopulateFactTable
    \/ AggBegin
    \/ \E i \in 1..4 : AggInsert(i)
    \/ AggCommit
    \/ CreateIndexes
    \/ DisplayStatistics
    \/ Rerun

Spec == Init /\ [][Next]_vars

\* One run of the pipeline up to the commit of the aggregates, on the feeds
\* of StatusFeeds.
StatusInit == source \in StatusFeeds /\ FirstRun
StatusNext ==
    \/ ExtractData
    \/ TransformData
    \/ PopulateDimensions
    \/ PopulateFactTable
    \/ AggBegin
    \/ \E i \in 1..4 : AggInsert(i)
    \/ AggCommit
StatusSpec == StatusInit /\ [][StatusNext]_vars

\* The pipeline up to populate_dimensions, on the feeds of AgeFeeds.
AgeInit == source \in AgeFeeds /\ FirstRun
AgeNext == ExtractData \/ TransformData \/ PopulateDimensions
AgeSpec == AgeInit /\ [][AgeNext]_vars

\* The pipeline up to populate_dimensions, on the feeds of DateFeeds.
DateInit == source \in DateFeeds /\ FirstRun
DateNext == ExtractData \/ TransformData \/ PopulateDimensions
DateSpec == DateInit /\ [][DateNext]_vars
\* ------------------------------------------- the SQL console of sqlite.py
\* A line of input is the sequence of its characters.  Number of lines the
\* console reads.
MaxLines == 2

\* The lines typed at the prompt.
ConsoleLines ==
    { << "e", "x", "i", "t" >>, << "E", "X", "I", "T" >>,
      << "E", "x", "i", "t" >>, << " ", "e", "x", "i", "t", " " >>,
      << "e", "x", "i", "t", "s" >>,
      << "i", "n", "i", "t" >>, << "I", "N", "I", "T" >>,
      << "p", "r", "a", "g", "m", "a", " ", "x" >>,
      << "P", "R", "A", "G", "M", "A", " ", "x" >>,
      << "s", "e", "l", "e", "c", "t", " ", "1" >>,
      << "S", "E", "L", "E", "C", "T", " ", "1" >>,
      << "d", "r", "o", "p", " ", "t" >>, << >> }

\* str.strip(): the line without its leading and trailing blanks.
RECURSIVE Strip(_)
Strip(line) ==
    IF line = <<>> THEN line
    ELSE IF Head(line) = " " THEN Strip(Tail(line))
    ELSE IF line[Len(line)] = " " THEN Strip(SubSeq(line, 1, Len(line) - 1))
    ELSE line

\* The capital letters and their small letters.
Capitals ==
    << "A", "C", "E", "G", "I", "L", "M", "N", "P", "R", "S", "T", "X" >>
Smalls ==
    << "a", "c", "e", "g", "i", "l", "m", "n", "p", "r", "s", "t", "x" >>

\* A lower() that leaves the line as it is.
LowerKeepsCase(line) == line

\* str.lower(): every capital letter replaced by its small letter.
Lower(line) ==
    [ i \in 1..Len(line) |->
        IF \E k \in 1..Len(Capitals) : Capitals[k] = line[i]
        THEN Smalls[CHOOSE k \in 1..Len(Capitals) : Capitals[k] = line[i]]
        ELSE line[i] ]

\* str.startswith(prefix).
StartsWith(line, prefix) ==
    Len(line) >= Len(prefix) /\ SubSeq(line, 1, Len(prefix)) = prefix

\* SQLiteHandler.execute: the statement runs and is committed, True; the
\* statement or the commit raises, False (the commit is not reached when the
\* statement raises).
execute(stmt, commitOk) ==
    [ stmt |-> stmt,
      committed |-> stmt = "ok" /\ commitOk,
      returned |-> IF stmt = "ok" /\ commitOk THEN "True" ELSE "False",
      raised |-> FALSE ]

\* SQLiteHandler.fetch: the rows, or None when the statement raises.
fetch(stmt) ==
    [ stmt |-> stmt, committed |-> FALSE,
      returned |-> IF stmt = "ok" THEN "rows" ELSE "None",
      raised |-> FALSE ]

\* SQLiteHandler.initDatabase: reads schema.sql, runs it and commits; it
\* catches nothing (a missing file, a failing script or commit raises).
initDatabase(stmt, commitOk) ==
    [ stmt |-> stmt,
      committed |-> stmt = "ok" /\ commitOk,
      returned |-> "",
      raised |-> ~ (stmt = "ok" /\ commitOk) ]

\* The body of the loop's try for the stripped line query: which handler
\* method runs and what comes of it.  Iterating over the None a failed
\* SELECT returns raises TypeError.
HandleLine(query, stmt, commitOk) ==
    LET q == Lower(query)
    IN  IF q = << "i", "n", "i", "t" >>
        THEN Extend(initDatabase(stmt, commitOk), [handler |-> "initDatabase"])
        ELSE IF StartsWith(q, << "p", "r", "a", "g", "m", "a" >>)
        THEN Extend(fetch(stmt), [handler |-> "fetch"])
        ELSE IF StartsWith(q, << "s", "e", "l", "e", "c", "t" >>)
        THEN Extend(fetch(stmt),
                    [handler |-> "fetch", raised |-> fetch(stmt).returned = "None"])
        ELSE Extend(execute(stmt, commitOk), [handler |-> "execute"])

\* One turn of the loop on a line: 'exit' in any case leaves the loop and
\* Handler.close() closes the connection; any other line is handled inside
\* the try, whose except clause catches what is raised, and the loop goes
\* on to the next prompt.
ConsoleLine ==
    /\ console.at = "prompt"
    /\ console.read < MaxLines
    /\ \E raw \in ConsoleLines, stmt \in {"ok", "raised"}, commitOk \in BOOLEAN :
          LET query == Strip(raw)
              h == HandleLine(query, stmt, commitOk)
          IN  IF Lower(query) = << "e", "x", "i", "t" >>
              THEN console' =
                     [ console EXCEPT !.at = "closed", !.read = @ + 1,
                                      !.line = raw, !.handler = "",
                                      !.stmt = "none", !.committed = FALSE,
                                      !.returned = "", !.caught = FALSE,
                                      !.open = FALSE ]
              ELSE console' =
                     [ console EXCEPT !.read = @ + 1, !.line = raw,
                                      !.handler = h.handler, !.stmt = h.stmt,
                                      !.committed = h.committed,
                                      !.returned = h.returned,
                                      !.caught = h.raised,
                                      !.commits = IF h.committed THEN @ + 1 ELSE @ ]
    /\ UNCHANGED pipeline

\* input() at the end of the input: EOFError is raised outside the try, the
\* process ends with a traceback and Handler.close() is not called.
ConsoleEndOfInput ==
    /\ console.at = "prompt"
    /\ console' = [ console EXCEPT !.at = "crashed", !.eof = TRUE,
                                   !.handler = "",
                                   !.stmt = "none", !.committed = FALSE,
                                   !.returned = "", !.caught = FALSE ]
    /\ UNCHANGED pipeline

\* The console on its own, the pipeline not running.
ConsoleInit == source = <<>> /\ exists = {} /\ FirstRun
ConsoleNext == ConsoleLine \/ ConsoleEndOfInput
ConsoleSpec == ConsoleInit /\ [][ConsoleNext]_vars

\* ------------------------------------------------------------ properties
\* The transformed transaction a fact row was built from.
TxOf(f) ==
    df_transformed[CHOOSE i \in 1..Len(df_transformed) :
                     df_transformed[i].Transaction_ID = f.transaction_id]

\* Rows of a table as a set of positions / values of one column.
Rows(table) == { table[i] : i \in 1..Len(table) }
Column(table, col) == { table[i][col] : i \in 1..Len(table) }

\* Two fact rows of one natural key carry one surrogate key, which is the
\* key the dimension stores for that natural key.
KeysConsistent(dim, natural, id, key, fkey) ==
    \A f, g \in Rows(fact_transactions) :
        TxOf(f)[natural] = TxOf(g)[natural] =>
            /\ f[fkey] = g[fkey]
            /\ \E d \in Rows(dim) : d[id] = TxOf(f)[natural] /\ d[key] = f[fkey]

\* C1: for any two transactions of one batch with the same natural key
\* (product, customer, staff or supplier id), their fact rows carry the same
\* surrogate key, and it is the key the dimension table stores for it.
C1_SameNaturalKeySameSurrogateKey ==
    factLoaded =>
        /\ KeysConsistent(dim_product, "Product_ID", "product_id",
                          "product_key", "product_key")
        /\ KeysConsistent(dim_customer, "Customer_ID", "customer_id",
                          "customer_key", "customer_key")
        /\ KeysConsistent(dim_staff, "Staff_ID", "staff_id",
                          "staff_key", "staff_key")
        /\ KeysConsistent(dim_supplier, "Supplier_ID", "supplier_id",
                          "supplier_key", "supplier_key")

\* C2: after a completed run every product_key, customer_key, staff_key and
\* supplier_key of fact_transactions is the surrogate key of a row of its
\* dimension table.
C2_ReferentialIntegrity ==
    Succeeded =>
        /\ Column(fact_transactions, "product_key")
             \subseteq Column(dim_product, "product_key")
        /\ Column(fact_transactions, "customer_key")
             \subseteq Column(dim_customer, "customer_key")
        /\ Column(fact_transactions, "staff_key")
             \subseteq Column(dim_staff, "staff_key")
        /\ Column(fact_transactions, "supplier_key")
             \subseteq Column(dim_supplier, "supplier_key")

\* A dimension holds exactly one row per natural key of the batch.
OneRowPerKey(dim, id, natural) ==
    /\ Column(dim, id) = Column(df_transformed, natural)
    /\ \A i, j \in 1..Len(dim) : dim[i][id] = dim[j][id] => i = j

\* C3: after populate_dimensions each of the four entity dimensions holds
\* exactly one row per distinct natural key of the batch: every natural key
\* has a row and none has two.
C3_OneRowPerNaturalKey ==
    pc = "fact" =>
        /\ OneRowPerKey(dim_product, "product_id", "Product_ID")
        /\ OneRowPerKey(dim_customer, "customer_id", "Customer_ID")
        /\ OneRowPerKey(dim_staff, "staff_id", "Staff_ID")
        /\ OneRowPerKey(dim_supplier, "supplier_id", "Supplier_ID")

\* C4: the fact table populate_fact_table writes has exactly as many rows as
\* the extracted batch, one per transaction.
C4_FactRowCount ==
    factLoaded =>
        /\ Len(fact_transactions) = Len(df_raw)
        /\ \A i \in 1..Len(df_raw) :
              fact_transactions[i].transaction_id = df_raw[i].Transaction_ID

\* C4's case: a written fact table of a batch in which natural keys repeat
\* (the dimension mappings hold duplicates the merges must not fan out on).
C4_Witness ==
    /\ factLoaded
    /\ Len(df_raw) >= 2
    /\ df_raw[1].Staff_ID = df_raw[2].Staff_ID
    /\ df_raw[1].Product_ID = df_raw[2].Product_ID
    /\ Len(mappings.staff) >= 2

\* C5: every fact row holds the YYYYMMDD key of its own timestamp, and that
\* key exists in dim_date, also for later transactions of the same day.
C5_DateKeyOfEveryRow ==
    factLoaded =>
        \A f \in Rows(fact_transactions) :
            /\ f.date_key = DateKey(f.transaction_datetime)
            /\ f.date_key \in Column(dim_date, "date_key")

\* C6: the total_amount of the 'Category' rows of the revenue aggregate sums
\* to the total_amount of the Completed fact rows.
C6_CategoryRevenueTotal ==
    Succeeded =>
        Sum([ i \in 1..Len(agg[1]) |->
                IF agg[1][i].dimension = "Category"
                THEN agg[1][i].total_amount ELSE 0 ])
          = Sum([ i \in 1..Len(fact_transactions) |->
                  IF fact_transactions[i].transaction_status = "Completed"
                  THEN fact_transactions[i].total_amount ELSE 0 ])

\* C7: a second run against the unchanged source leaves the warehouse as the
\* first run left it (same dimension, fact and aggregate contents).
C7_Idempotent ==
    (Succeeded /\ prev.succeeded) => Warehouse = prev.warehouse

\* The rows of the ten tables.
AllRows ==
    Rows(dim_product) \cup Rows(dim_customer) \cup Rows(dim_date)
      \cup Rows(dim_staff) \cup Rows(dim_supplier) \cup Rows(fact_transactions)
      \cup UNION { Rows(agg[i]) : i \in 1..4 }

\* C8: after a successful run every row of every table was written by that
\* run.
C8_NoRowOfAnEarlierRun ==
    Succeeded =>
        \A r \in AllRows : r.run = run

\* What the i-th INSERT of this run adds to its table.
AggResult(i) ==
    to_sql(AggSelect(i, fact_transactions, dim_product, dim_customer, dim_date),
           run)

\* create_aggregate_tables has returned in this run.
AggReturned ==
    txn # "none" /\ pc \in {"indexes", "statistics", "done", "failed"}

\* C9: once create_aggregate_tables has returned, either all four aggregate
\* tables have received this run's results or none has; after a failed INSERT
\* all four are what they were before the stage began.
C9_AggregatesAtomic ==
    AggReturned =>
        \/ /\ txn = "committed"
           /\ failedAt = 0
           /\ \A i \in 1..4 : agg[i] = aggBefore[i] \o AggResult(i)
        \/ /\ txn = "rolledback"
           /\ failedAt \in 1..4
           /\ \A i \in 1..4 : agg[i] = aggBefore[i]

\* C9's case: an INSERT raised after earlier INSERTs had staged rows, the
\* tables held rows of an earlier run, and the function has returned.
C9_Witness ==
    /\ AggReturned
    /\ txn = "rolledback"
    /\ failedAt = 3
    /\ AggResult(1) # <<>> /\ AggResult(2) # <<>>
    /\ aggBefore[1] # <<>>

\* C10: a run in which an aggregate INSERT failed never ends with the success
\* banner and exit code 0.
C10_AggregateFailureIsReported ==
    pc = "done" => failedAt = 0

\* main() is past populate_fact_table in this run.
PastFactStage ==
    pc \in { "aggregates", "insert1", "insert2", "insert3", "insert4", "commit",
             "indexes", "statistics", "done" }
      \/ (pc = "failed" /\ error.stage \in {"indexes", "statistics"})

\* C11: a failure to build or write the fact table is fatal: the run ends
\* with a non-zero exit, and neither the aggregate stage nor the index stage
\* executes after it.
C11_FactFailureIsFatal ==
    ~ (PastFactStage /\ ~ factLoaded)

\* A table holds what this run wrote into it / the six replaced tables.
WrittenThisRun(table) ==
    table # <<>> /\ \A r \in Rows(table) : r.run = run
ReplacedTables ==
    << dim_product, dim_customer, dim_date, dim_staff, dim_supplier,
       fact_transactions >>

\* C12: whenever a run ends in failure the warehouse is not partially
\* rebuilt: either no table holds anything of the failed run, or every table
\* was rebuilt by it (the six replaced tables written, the aggregates
\* committed).
C12_NoPartialRebuild ==
    pc = "failed" =>
        \/ \A r \in AllRows : r.run # run
        \/ /\ \A i \in 1..Len(ReplacedTables) : WrittenThisRun(ReplacedTables[i])
           /\ txn = "committed"

ValidDate(d) ==
    /\ MonthOf(d) \in 1..12
    /\ DayOf(d) \in 1..DaysInMonth(YearOf(d), MonthOf(d))

\* The ordinals of the earliest and the latest transaction day of the batch.
FirstOrdinal ==
    CHOOSE o \in { ToOrdinal(t.Transaction_DateTime) : t \in Rows(df_raw) } :
        \A t \in Rows(df_raw) : o <= ToOrdinal(t.Transaction_DateTime)
LastOrdinal ==
    CHOOSE o \in { ToOrdinal(t.Transaction_DateTime) : t \in Rows(df_raw) } :
        \A t \in Rows(df_raw) : o >= ToOrdinal(t.Transaction_DateTime)

\* C14: dim_date holds exactly one row per calendar day from the earliest to
\* the latest transaction day, both included: (max - min).days + 1 rows, the
\* i-th being the i-th day of the range, none missing and none twice.
C14_DimDateCoversRange ==
    pc = "fact" =>
        /\ Len(dim_date) = LastOrdinal - FirstOrdinal + 1
        /\ \A i \in 1..Len(dim_date) :
              /\ ValidDate(dim_date[i].full_date)
              /\ ToOrdinal(dim_date[i].full_date) = FirstOrdinal + i - 1
              /\ dim_date[i].date_key = dim_date[i].full_date

\* C14's case: the later transaction comes first in the feed, and the range
\* runs over the end of a year and the 29th of February.
C14_Witness ==
    /\ pc = "fact"
    /\ df_raw[1].Transaction_DateTime = 20240301
    /\ df_raw[2].Transaction_DateTime = 20231230
    /\ Len(dim_date) = 63

\* The positions of the fact rows of one order type and status.
FactRowsOf(ot, st) ==
    { i \in 1..Len(fact_transactions) :
        /\ fact_transactions[i].order_type = ot
        /\ fact_transactions[i].transaction_status = st }

\* The positions of the Completed fact rows whose product (the dim_product
\* row of their product_key) has value v in column col.
CompletedRowsOf(col, v) ==
    { i \in 1..Len(fact_transactions) :
        /\ fact_transactions[i].transaction_status = "Completed"
        /\ \E p \in Rows(dim_product) :
              /\ p.product_key = fact_transactions[i].product_key
              /\ p[col] = v }

\* The sum of total_amount over the fact rows at the positions of a set.
RECURSIVE AmountOf(_)
AmountOf(positions) ==
    IF positions = {} THEN 0
    ELSE LET i == CHOOSE i \in positions : TRUE
         IN  fact_transactions[i].total_amount + AmountOf(positions \ {i})

\* The revenue aggregate's rows of one dimension are computed from the
\* Completed fact rows: one row per value that has such rows.
RevenueFromCompleted(name, col) ==
    LET rows == { r \in Rows(agg[1]) : r.dimension = name }
    IN  /\ \A r \in rows :
              /\ r.transaction_count = Cardinality(CompletedRowsOf(col, r.dimension_value))
              /\ r.total_amount = AmountOf(CompletedRowsOf(col, r.dimension_value))
              /\ r.transaction_count > 0
        /\ \A p \in Rows(dim_product) :
              CompletedRowsOf(col, p[col]) # {} =>
                  \E r \in rows : r.dimension_value = p[col]

\* C15: agg_kpi_status_by_order_type counts the fact rows of every status
\* per (order_type, status), Cancelled and Refunded included;
\* agg_kpi_revenue_by_dimension is computed from the Completed fact rows
\* only: no Cancelled or Refunded row adds to a total or a count.
C15_StatusCountsAllRevenueCompletedOnly ==
    txn = "committed" =>
        /\ \A c \in {1, 2}, st \in AllStatuses :
              LET n == Cardinality(FactRowsOf(OrderTypeOf(c), st))
                  rows == { i \in 1..Len(agg[2]) :
                              /\ agg[2][i].order_type = OrderTypeOf(c)
                              /\ agg[2][i].transaction_status = st }
              IN  IF n = 0 THEN rows = {}
                  ELSE /\ Cardinality(rows) = 1
                       /\ \A i \in rows : agg[2][i].record_count = n
        /\ RevenueFromCompleted("Category", "category")
        /\ RevenueFromCompleted("Brand", "brand")
        /\ RevenueFromCompleted("Model", "model")
        /\ \A r \in Rows(agg[1]) : r.dimension \in {"Category", "Brand", "Model"}

\* C15's case: a Refunded and a Completed fact row of different products,
\* each joined to its product, and committed aggregates.
C15_Witness ==
    /\ txn = "committed"
    /\ Len(fact_transactions) = 2
    /\ fact_transactions[1].transaction_status = "Refunded"
    /\ fact_transactions[2].transaction_status = "Completed"
    /\ \A i \in 1..2 :
          fact_transactions[i].product_key \in Column(dim_product, "product_key")
    /\ Len(agg[1]) = 3
    /\ \E r \in Rows(agg[2]) : r.transaction_status = "Refunded"

\* C16: a customer age outside (0, 100] makes the transform reject the row
\* with a ValidationError: no row of such an age is passed on to the load
\* stages with a missing or wrong age_group.
C16_OutOfRangeAgeIsRejected ==
    /\ \A t \in Rows(df_transformed) :
          t.Customer_Age > 0 /\ t.Customer_Age <= 100
    /\ \A c \in Rows(dim_customer) :
          c.customer_age > 0 /\ c.customer_age <= 100

\* The bands of the age groups: (lo, hi] and the label.
AgeBands ==
    { [lo |-> 0, hi |-> 25, label |-> "18-25"],
      [lo |-> 25, hi |-> 35, label |-> "26-35"],
      [lo |-> 35, hi |-> 45, label |-> "36-45"],
      [lo |-> 45, hi |-> 55, label |-> "46-55"],
      [lo |-> 55, hi |-> 100, label |-> "56+"] }

\* C17: for every age from 1 to 100 the age group is that of the band
\* (lo, hi] the age lies in, so that 25, 35, 45 and 55 fall in the lower
\* band; the transformed row and the dim_customer row carry it.
C17_AgeGroupOfBand ==
    /\ \A t \in Rows(df_transformed) :
          t.Customer_Age \in 1..100 =>
              \E b \in AgeBands :
                  /\ b.lo < t.Customer_Age /\ t.Customer_Age <= b.hi
                  /\ t.Age_Group = b.label
    /\ \A c \in Rows(dim_customer) :
          c.customer_age \in 1..100 =>
              \E b \in AgeBands :
                  /\ b.lo < c.customer_age /\ c.customer_age <= b.hi
                  /\ c.age_group = b.label

\* C17's case: a customer aged 25, the upper end of the first band, loaded
\* into dim_customer.
C17_Witness ==
    /\ pc = "fact"
    /\ df_transformed[1].Customer_Age = 25
    /\ dim_customer[1].age_group = "18-25"

\* extract_data has returned an empty batch in this run and main has gone on.
EmptyBatchExtracted ==
    /\ source = <<>>
    /\ pc \notin {"extract", "blocked", "transform"}
    /\ error.stage # "extract"

\* C18: a run whose extracted batch is empty fails fatally with the
\* empty-batch error class and a non-zero exit, and writes no date dimension
\* and no other table.
C18_EmptyBatchIsFatal ==
    EmptyBatchExtracted =>
        /\ pc = "failed"
        /\ error.class = "EmptyBatchError"
        /\ \A r \in AllRows : r.run # run

\* C19: a failing CREATE INDEX is not fatal: it does not end the run, the
\* remaining indexes and the statistics are still processed and the run
\* exits with code 0.
C19_IndexFailureIsNotFatal ==
    ~ (pc = "failed" /\ error.stage = "indexes")

\* C20: the run never blocks for ever in extraction: the request is cut off
\* by a timeout and the run goes on to terminate, so a run that has not
\* exited can always take a step.
C20_ExtractionNeverBlocks ==
    pc \notin {"done", "failed"} => ENABLED Next

\* The surrogate keys of a dimension are 1..k, k the number of distinct
\* natural keys of the batch, and no two rows share one.
KeysEnumerate(dim, key, natural) ==
    /\ Column(dim, key) = 1..Cardinality(Column(df_transformed, natural))
    /\ \A i, j \in 1..Len(dim) : dim[i][key] = dim[j][key] => i = j

\* C21: in dim_product, dim_customer, dim_staff and dim_supplier the
\* surrogate keys are positive, unique within the table and enumerate the
\* distinct natural keys from 1: a table of k distinct natural keys carries
\* exactly the keys 1..k.
C21_SurrogateKeysEnumerate ==
    pc = "fact" =>
        /\ KeysEnumerate(dim_product, "product_key", "Product_ID")
        /\ KeysEnumerate(dim_customer, "customer_key", "Customer_ID")
        /\ KeysEnumerate(dim_staff, "staff_key", "Staff_ID")
        /\ KeysEnumerate(dim_supplier, "supplier_key", "Supplier_ID")

\* The day of the week of d by Zeller's congruence, Monday being 0.
Weekday(d) ==
    LET m == IF MonthOf(d) < 3 THEN MonthOf(d) + 12 ELSE MonthOf(d)
        y == IF MonthOf(d) < 3 THEN YearOf(d) - 1 ELSE YearOf(d)
        k == y % 100
        j == y \div 100
        h == (DayOf(d) + (13 * (m + 1)) \div 5 + k + k \div 4 + j \div 4 + 5 * j) % 7
    IN  (h + 5) % 7

\* The least whole number that is at least n / 3.
CeilOfThird(n) == CHOOSE q \in 0..n : 3 * q >= n /\ 3 * (q - 1) < n

\* C22: for every row of dim_date, date_key = year*10000 + month*100 + day
\* of the row's date, quarter = ceil(month/3), is_weekend = 1 exactly when
\* day_of_week >= 5 (Saturday or Sunday, Monday = 0), and year_month reads
\* as the row's year and month in the form YYYY-MM.
C22_DimDateRowFormulas ==
    \A r \in Rows(dim_date) :
        /\ r.year = YearOf(r.full_date)
        /\ r.month = MonthOf(r.full_date)
        /\ r.day = DayOf(r.full_date)
        /\ r.date_key = r.year * 10000 + r.month * 100 + r.day
        /\ r.quarter = CeilOfThird(r.month)
        /\ r.quarter \in 1..4
        /\ r.day_of_week = Weekday(r.full_date)
        /\ r.is_weekend \in {0, 1}
        /\ r.is_weekend = 1 <=> r.day_of_week >= 5
        /\ Len(r.year_month) = 7
        /\ r.year_month[5] = "-"
        /\ \A i \in {1, 2, 3, 4, 6, 7} : r.year_month[i] \in 0..9
        /\ r.year_month[1] * 1000 + r.year_month[2] * 100
              + r.year_month[3] * 10 + r.year_month[4] = r.year
        /\ r.year_month[6] * 10 + r.year_month[7] = r.month

\* C22's case: a dim_date from Saturday 30 December 2023 to Friday 1 March
\* 2024: weekend and working days, quarters 4 and 1, the last month of a
\* quarter.
C22_Witness ==
    /\ \E r \in Rows(dim_date) :
          r.full_date = 20231230 /\ r.is_weekend = 1 /\ r.quarter = 4
    /\ \E r \in Rows(dim_date) :
          r.full_date = 20240301 /\ r.is_weekend = 0 /\ r.quarter = 1
    /\ \E r \in Rows(dim_date) : r.day_of_week = 6

ExitLines ==
    { << "e", "x", "i", "t" >>, << "E", "X", "I", "T" >>,
      << "E", "x", "i", "t" >>, << " ", "e", "x", "i", "t", " " >> }

\* What execute and fetch return for the last line, and when execute
\* commits: False and no commit when the statement raised, None from a
\* failed fetch.
HandlerNeverRaises ==
    /\ console.handler = "execute" =>
          /\ console.returned \in {"True", "False"}
          /\ console.committed => console.stmt = "ok"
          /\ console.stmt = "raised" => console.returned = "False"
          /\ console.returned = "True" <=> console.committed
          /\ ~ console.caught
    /\ console.handler = "fetch" =>
          /\ console.returned = (IF console.stmt = "raised" THEN "None" ELSE "rows")
          /\ ~ console.committed
    /\ console.commits <= console.read

\* C24: in the console loop no failing query or command ends the loop:
\* execute returns False instead of raising and commits only when the
\* statement succeeded, fetch returns None instead of raising, whatever is
\* raised while a line is handled is caught, and the loop ends, closing the
\* connection, only when the line is 'exit' in any letter case.
C24_LoopEndsOnlyOnExit ==
    /\ HandlerNeverRaises
    /\ console.at # "prompt" =>
          /\ console.at = "closed"
          /\ console.line \in ExitLines
          /\ ~ console.open
    /\ (console.read > 0 /\ console.line \in ExitLines) => console.at = "closed"

\* C24 with the end of the input: the loop ends either on a line that is
\* 'exit' in any letter case, closing the connection, or when input() meets
\* the end of the input, the EOFError ending the process with the connection
\* not closed; no line that is handled ends the loop, whatever fails.
C24_LoopEndsOnExitOrEndOfInput ==
    /\ HandlerNeverRaises
    /\ console.at # "prompt" =>
          \/ /\ console.at = "closed"
             /\ console.line \in ExitLines
             /\ ~ console.open /\ ~ console.eof
          \/ /\ console.at = "crashed"
             /\ console.eof /\ console.open
    /\ (console.read > 0 /\ console.line \in ExitLines) => console.at = "closed"
    /\ (console.read > 0 /\ console.line \notin ExitLines /\ ~ console.eof) =>
          console.at = "prompt"

\* C24's case: after a committed statement, a SELECT that failed: fetch
\* returned None, iterating over it raised, the loop caught it and is at
\* the next prompt.
C24_Witness ==
    /\ console.at = "prompt"
    /\ console.read = 2 /\ console.commits = 1
    /\ console.handler = "fetch" /\ console.returned = "None"
    /\ console.caught
=============================================================================
